---- MODULE Spec2Model ----
(***************************************************************************)
(* Load generators of the university admission portal.                     *)
(*                                                                         *)
(*   backend/load-tests/locust-load-test.py      the Simple generator      *)
(*   backend/load-tests/locust-advanced-test.py  the Advanced generator    *)
(*                                                                         *)
(* A virtual user (session) is one instance of a user class.  It runs      *)
(* on_start (register, then login) and then its tasks, one invocation per  *)
(* scheduling turn.  Every HTTP request and every time.sleep is a point   *)
(* where the greenlet yields, so a handler is a sequence of steps, each    *)
(* the code between two yields, interleaved with the steps of the other    *)
(* users.                                                                  *)
(* The server is the environment: each response status and body is chosen  *)
(* nondeterministically.                                                   *)
(***************************************************************************)
EXTENDS Integers, Sequences, FiniteSets, TLC

\* ---------------------------------------------------------------- bounds
\* Normal sessions stop taking turns once they recorded MaxIds ids.
MaxIds == 2
\* The hook on_request receives at most MaxEvents request events when it is
\* run on its own.
MaxEvents == 3
\* The sessions fire at most MaxFired request events.
MaxFired == 7
\* A test stops after at most MaxRequests requests.
MaxRequests == 10

\* ------------------------------------------------------- values and sets
Sessions == {"u1", "u2"}

\* Python's None, and the empty string.
None == "<None>"
Empty == ""

\* The user classes: the Simple generator's single class and the three
\* classes of the advanced generator.
Profiles == {"Simple", "Normal", "Heavy", "StatusChecker"}
AdvancedProfiles == {"Normal", "Heavy", "StatusChecker"}

\* What the server may answer.
RegisterStatuses == {201, 400}
LoginStatuses == {200, 401}
SubmitStatuses == {201, 202, 500}
GetStatuses == {200, 404}
PayStatuses == {200, 402}
\* response.json().get("access_token"): absent, empty, or a token.
AccessTokens == {None, Empty, "tok1", "tok2"}
\* response.json().get("id"): absent, or an id.
ResponseIds == {None, "app1", "app2"}
\* generate_random_string(8): two of the 26^8 strings.
Suffixes == {"aaaaaaaa", "bbbbbbbb"}
\* response.json().get("status"): absent, or a status.
StatusValues == {None, "submitted"}
\* A response body that is not a JSON object (empty, HTML, a JSON list):
\* response.json() or .get(...) raises on it.
NotJsonObject == "<not a JSON object>"
\* The bodies of the responses the handlers read: a JSON object, given by
\* the value of the key the handler reads, or not a JSON object.
TokenBodies == AccessTokens \cup {NotJsonObject}
IdBodies == ResponseIds \cup {NotJsonObject}
StatusBodies == StatusValues \cup {NotJsonObject}

\* ---------------------------------------------------------- pure helpers
\* response.json().get(key) raises, or gives the value of the key.
Raises(body) == body = NotJsonObject
JsonGet(body) == body

\* Python truth value of an optional string ("if not x").
TruthyNotNone(v) == v # None
Truthy(v) == v # None /\ v # Empty

\* str(v) as an f-string formats it.
Str(v) == IF v = None THEN "None" ELSE v

\* {"Authorization": f"Bearer {token}"}
Bearer(tok) == <<"Bearer", Str(tok)>>

\* f"/applications/{app_id}"
ApplicationPath(app_id) == <<"applications", Str(app_id)>>

\* The payment payload of both generators.
PaymentAmount == 7500
PaymentCurrency == "usd"
PaymentData(app_id) ==
    [applicationId |-> app_id, amount |-> PaymentAmount, currency |-> PaymentCurrency]

\* One exchange of on_start as a mock server sees it: the request (op, path,
\* auth, json), the response status, the value the handler read from the
\* response body (None when it read nothing) and the outcome it reported
\* (ok: success; otherwise, when reported, a failure; not reported when an
\* exception left the "with" block before any outcome was marked).
Req(op, path, auth, json, status, read, ok, reported) ==
    [op |-> op, path |-> path, auth |-> auth, json |-> json,
     status |-> status, read |-> read, ok |-> ok, reported |-> reported]

\* One exchange of a task, kept for the whole invocation: as above without
\* the status, which is kept for the latest response only (response).
Sent(op, path, auth, json, read, ok, reported) ==
    [op |-> op, path |-> path, auth |-> auth, json |-> json,
     read |-> read, ok |-> ok, reported |-> reported]

NoAuth == <<>>
NoJson == [none |-> TRUE]

\* user_data of register_and_login: the advanced generator's, and the Simple
\* generator's.
UserData(generator, suffix) ==
    IF generator = "Simple"
      THEN [email |-> <<"test_", suffix, "@example.com">>,
            password |-> "TestPass123!",
            firstName |-> <<"FirstName_", suffix>>,
            lastName |-> <<"LastName_", suffix>>]
      ELSE [email |-> <<"locust_", suffix, "@example.com">>,
            password |-> "LocustTest123!",
            firstName |-> <<"Locust_", suffix>>,
            lastName |-> <<"User_", suffix>>]

\* user_data before register_and_login has assigned it.
NoUserData == [email |-> <<>>, password |-> Empty, firstName |-> <<>>, lastName |-> <<>>]

\* login_data of register_and_login.
LoginDataByName(ud) == [email |-> ud.firstName, password |-> ud.password]
LoginData(ud) == [email |-> ud.email, password |-> ud.password]

\* Expected statuses.
RegisterExpectedAny(st) == TRUE
RegisterExpected(st) == st = 201
LoginExpectedAny(st) == st >= 200
LoginExpected(st) == st = 200
SimpleSubmitExpected(st) == st = 201
AdvancedSubmitExpected(st) == st \in {201, 202}
GetExpected(st) == st = 200
PayExpected(st) == st = 200

\* random.randint(3, 5)
HeavyMin == 3
HeavyMax == 5
BulkCountsFromTwo == HeavyMin - 1 .. HeavyMax
BulkCounts == HeavyMin .. HeavyMax

\* range(5) of the poller
PollCountFour == 5 - 1
PollCount == 5

\* ------------------------------------------------------------------ state
VARIABLES
    profile,          \* the user class of each session
    auth_token,       \* self.auth_token
    application_ids,  \* self.application_ids (advanced generator)
    application_id,   \* self.application_id (Simple generator)
    pc,               \* where the session is
    app_id,           \* local app_id of a running Normal chain or poll loop
    headers,          \* local headers of a running burst or poll loop
    num_applications, \* local num_applications of a running burst
    i,                \* loop index of a running burst or poll loop
    user_data,        \* local user_data of register_and_login
    request_success_count, \* the global request_success_count
    request_failure_count, \* the global request_failure_count
    num_requests,     \* stats.total.num_requests at test stop
    num_failures,     \* stats.total.num_failures at test stop
    failure_line,     \* the "Failure Rate" line on_test_stop printed
    events,           \* history: the request events fired at on_request run on its own
    setup,            \* history: the exchanges of on_start
    inv,              \* history: the exchanges of the current (or latest) task invocation
    response,         \* history: the status of the latest response (0 before any)
    invoked,          \* history: the scheduler has invoked a task of the session
    created           \* history: the body of the latest submit response of status 201 (Simple)

\* The counters of on_request, and what else the hooks read and write.
Counters == <<request_success_count, request_failure_count>>
Stats == <<num_requests, num_failures, failure_line, events>>

\* What the hooks of the advanced generator read and write.
Hooks == <<request_success_count, request_failure_count, num_requests,
           num_failures, failure_line, events>>

\* What the sessions read and write.
SessionVars == <<profile, auth_token, application_ids, application_id, pc, app_id,
                 headers, num_applications, i, user_data, setup, inv, response,
                 invoked, created>>

vars == <<SessionVars, Hooks>>

\* on_test_stop has not run; it ran and printed no "Failure Rate" line; it
\* printed f"Failure Rate: {failure_rate:.2f}%", the rate in hundredths of a
\* percent.
NotStopped == [stopped |-> FALSE]
NoFailureLine == [stopped |-> TRUE, printed |-> FALSE]
FailureLine(h) == [stopped |-> TRUE, printed |-> TRUE, hundredths |-> h]

\* Module level of the advanced generator: the counters start at 0; nothing
\* is printed before the test stops.
HooksInit ==
    /\ request_success_count = 0
    /\ request_failure_count = 0
    /\ num_requests = 0
    /\ num_failures = 0
    /\ failure_line = NotStopped
    /\ events = <<>>

\* __init__ of both generators; on_start has not run yet.  A run loads one
\* of the two files: its users are all of the Simple generator, or all of
\* classes of the advanced one.
SessionInit ==
    /\ profile \in [Sessions -> {"Simple"}] \cup [Sessions -> AdvancedProfiles]
    /\ auth_token = [s \in Sessions |-> None]
    /\ application_ids = [s \in Sessions |-> <<>>]
    /\ application_id = [s \in Sessions |-> None]
    /\ pc = [s \in Sessions |-> "new"]
    /\ app_id = [s \in Sessions |-> None]
    /\ headers = [s \in Sessions |-> NoAuth]
    /\ num_applications = [s \in Sessions |-> 0]
    /\ i = [s \in Sessions |-> 0]
    /\ user_data = [s \in Sessions |-> NoUserData]
    /\ setup = [s \in Sessions |-> <<>>]
    /\ inv = [s \in Sessions |-> <<>>]
    /\ response = [s \in Sessions |-> 0]
    /\ invoked = [s \in Sessions |-> FALSE]
    /\ created = [s \in Sessions |-> None]

Init == SessionInit /\ HooksInit

\* ------------------------------------------------- writes to session state
\* self.auth_token = tok
StoreTokenShared(tokens, s, tok) == [t \in Sessions |-> tok]
StoreToken(tokens, s, tok) == [tokens EXCEPT ![s] = tok]

\* self.user.application_ids.append(id)
AppendIdFront(ids, s, id) == [ids EXCEPT ![s] = <<id>> \o @]
AppendIdShared(ids, s, id) == [t \in Sessions |-> Append(ids[t], id)]
AppendId(ids, s, id) == [ids EXCEPT ![s] = Append(@, id)]

\* self.application_id = id
StoreId(cur, s, id) == [cur EXCEPT ![s] = id]

Locals == <<app_id, headers, num_applications, i>>

\* --------------------------------------------------------------- histories
\* The scheduler invokes a task of session s.
Invoke(s) == invoked' = [invoked EXCEPT ![s] = TRUE]

\* The invocation starts: none of its requests has been answered.
NoRequest(s) ==
    /\ inv' = [inv EXCEPT ![s] = <<>>]
    /\ UNCHANGED response

\* The response, of status st, to a request of the running invocation.
Exchange(s, r, st) ==
    /\ inv' = [inv EXCEPT ![s] = Append(@, r)]
    /\ response' = [response EXCEPT ![s] = st]

\* A request of on_start and its response.
SetupExchange(s, r) ==
    /\ setup' = [setup EXCEPT ![s] = Append(@, r)]
    /\ response' = [response EXCEPT ![s] = r.status]

\* --------------------------------------------------- the hook on_request
\* What a request event may carry as its exception: none, a transport error,
\* or the failure a handler reported.
Exceptions == {None, "ConnectionError", "CatchResponseError"}
EventStatuses == {200, 500}

\* "if exception:"
ExceptionSet(e) == e # None

\* on_request: the two counters after a request event with this exception.
on_request(counts, exception) ==
    IF ExceptionSet(exception)
      THEN [counts EXCEPT !.failure = @ + 1]
      ELSE [counts EXCEPT !.success = @ + 1]

\* The counters after the request events with these exceptions, in order.
RECURSIVE Handled(_, _)
Handled(counts, excs) ==
    IF excs = <<>>
      THEN counts
      ELSE Handled(on_request(counts, Head(excs)), Tail(excs))

\* events.request fires once for each of excs: the listener on_request runs
\* for each.  No more than MaxFired events fire in a run.
Fire(excs) ==
    LET c == Handled([success |-> request_success_count,
                      failure |-> request_failure_count], excs)
    IN  /\ request_success_count + request_failure_count + Len(excs) <= MaxFired
        /\ request_success_count' = c.success
        /\ request_failure_count' = c.failure

\* The exception of the request event of a request left as a success, or as
\* a failure (response.failure(...)).
ExceptionOf(ok) == IF ok THEN None ELSE "CatchResponseError"

\* Session s leaves the "with" blocks of requests with these outcomes (ok or
\* not), in this order: each fires its request event.  Only the advanced
\* generator registers on_request.
Report(s, oks) ==
    IF profile[s] = "Simple" \/ oks = <<>>
      THEN UNCHANGED Counters
      ELSE Fire([k \in DOMAIN oks |-> ExceptionOf(oks[k])])

\* ---------------------------------------------------------------- on_start
\* A handler runs up to its next request or sleep, where the greenlet yields
\* and other users run: a step of a handler is the code between two yields.
\* At pc "idle" no handler of the session runs; at any other pc the session
\* waits for the answer of the request it sent, or sleeps.

\* on_start calls register_and_login, which builds user_data and sends the
\* registration.
on_start(s) ==
    /\ pc[s] = "new"
    /\ \E suffix \in Suffixes :
          user_data' = [user_data EXCEPT ![s] = UserData(profile[s], suffix)]
    /\ pc' = [pc EXCEPT ![s] = "registering"]
    /\ UNCHANGED <<Hooks, profile, auth_token, application_ids, application_id,
                   Locals, setup, inv, response, invoked, created>>

\* Where register_and_login goes after the registration response: on to the
\* login, or back to the caller ("return"), after which the tasks run.
AfterRegister(st) == IF RegisterExpected(st) THEN "registered" ELSE "idle"

\* register_and_login, from the registration response on: it returns, or
\* sends the login.
Register(s) ==
    /\ pc[s] = "registering"
    /\ \E st \in RegisterStatuses :
        /\ SetupExchange(s, Req("register", <<"auth", "register">>, NoAuth,
                                user_data[s], st, None, RegisterExpected(st), TRUE))
        /\ pc' = [pc EXCEPT ![s] = AfterRegister(st)]
        /\ Report(s, <<RegisterExpected(st)>>)
    /\ UNCHANGED <<Stats, user_data, profile, auth_token, application_ids,
                   application_id, Locals, inv, invoked, created>>

\* register_and_login, from the login response on.  A 200 answer whose body
\* is not a JSON object raises at response.json().get(...): the exception
\* leaves the "with" block (nothing is reported) and on_start, and the user
\* ends.
Login(s) ==
    /\ pc[s] = "registered"
    /\ \E st \in LoginStatuses, body \in TokenBodies :
        LET raises == LoginExpected(st) /\ Raises(body)
            stored == LoginExpected(st) /\ ~Raises(body)
        IN  /\ SetupExchange(s, Req("login", <<"auth", "login">>, NoAuth,
                                    LoginData(user_data[s]), st,
                                    IF stored THEN JsonGet(body) ELSE None,
                                    stored, ~raises))
            /\ auth_token' = IF stored
                               THEN StoreToken(auth_token, s, JsonGet(body))
                               ELSE auth_token
            /\ pc' = [pc EXCEPT ![s] = IF raises THEN "stopped" ELSE "idle"]
            /\ Report(s, IF raises THEN <<>> ELSE <<stored>>)
    /\ UNCHANGED <<Stats, user_data, profile, application_ids, application_id,
                   Locals, inv, invoked, created>>

\* ------------------------------------------------ Simple generator's tasks
\* The scheduler calls a task of session s: the task returns at its guard,
\* or sends its request, waited for at pc = sent.
Call(s, returns, sent) ==
    /\ pc[s] = "idle"
    /\ Invoke(s)
    /\ NoRequest(s)
    /\ pc' = [pc EXCEPT ![s] = IF returns THEN "idle" ELSE sent]

\* An exception a task raises is caught and logged by the task runner, and
\* the user goes on to its next task.
submit_application(s) ==
    /\ profile[s] = "Simple"
    /\ IF pc[s] = "idle"
         THEN /\ Call(s, ~Truthy(auth_token[s]), "submit")
              /\ UNCHANGED <<application_id, created>>
         ELSE /\ pc[s] = "submit"
              /\ \E st \in SubmitStatuses, body \in IdBodies :
                  LET raises == SimpleSubmitExpected(st) /\ Raises(body)
                      stored == SimpleSubmitExpected(st) /\ ~Raises(body)
                  IN  /\ Exchange(s, Sent("submit", <<"applications">>,
                                          Bearer(auth_token[s]),
                                          [personalStatement |-> 0],
                                          IF stored THEN JsonGet(body) ELSE None,
                                          stored, ~raises), st)
                      /\ application_id' =
                            IF stored THEN StoreId(application_id, s, JsonGet(body))
                                      ELSE application_id
                      /\ created' = IF st = 201 THEN [created EXCEPT ![s] = body]
                                                ELSE created
              /\ pc' = [pc EXCEPT ![s] = "idle"]
              /\ UNCHANGED invoked
    /\ UNCHANGED <<Hooks, user_data, profile, auth_token, application_ids, Locals, setup>>

get_application_details(s) ==
    /\ profile[s] = "Simple"
    /\ IF pc[s] = "idle"
         THEN Call(s, ~Truthy(auth_token[s]) \/ ~Truthy(application_id[s]), "get")
         ELSE /\ pc[s] = "get"
              /\ \E st \in GetStatuses :
                    Exchange(s, Sent("get", ApplicationPath(application_id[s]),
                                     Bearer(auth_token[s]), NoJson, None,
                                     GetExpected(st), TRUE), st)
              /\ pc' = [pc EXCEPT ![s] = "idle"]
              /\ UNCHANGED invoked
    /\ UNCHANGED <<Hooks, user_data, profile, auth_token, application_ids, application_id,
                   Locals, setup, created>>

initiate_payment(s) ==
    /\ profile[s] = "Simple"
    /\ IF pc[s] = "idle"
         THEN Call(s, ~Truthy(auth_token[s]) \/ ~Truthy(application_id[s]), "pay")
         ELSE /\ pc[s] = "pay"
              /\ \E st \in PayStatuses :
                    Exchange(s, Sent("pay", <<"payments", "checkout">>,
                                     Bearer(auth_token[s]),
                                     PaymentData(application_id[s]), None,
                                     PayExpected(st), TRUE), st)
              /\ pc' = [pc EXCEPT ![s] = "idle"]
              /\ UNCHANGED invoked
    /\ UNCHANGED <<Hooks, user_data, profile, auth_token, application_ids, application_id,
                   Locals, setup, created>>

\* ------------------------------------------------------ NormalUserBehavior
\* complete_application_flow up to and including the submit response.  On
\* 201 or 202 the handler stays inside the "with" block of the submit for the
\* status check and the payment, so the request event of the submit fires
\* when those have ended.
complete_application_flow(s) ==
    /\ profile[s] = "Normal"
    /\ IF pc[s] = "idle"
         THEN /\ Len(application_ids[s]) < MaxIds
              /\ Call(s, ~Truthy(auth_token[s]), "submit")
              /\ UNCHANGED <<application_ids, app_id, Counters>>
         ELSE /\ pc[s] = "submit"
              /\ \E st \in SubmitStatuses, body \in IdBodies :
                  LET raises == AdvancedSubmitExpected(st) /\ Raises(body)
                      stored == AdvancedSubmitExpected(st) /\ ~Raises(body)
                  IN  /\ Exchange(s, Sent("submit", <<"applications">>,
                                          Bearer(auth_token[s]),
                                          [personalStatement |->
                                              Len(application_ids[s]) + 1],
                                          IF stored THEN JsonGet(body) ELSE None,
                                          stored, ~raises), st)
                      /\ IF stored
                           THEN /\ app_id' = [app_id EXCEPT ![s] = JsonGet(body)]
                                /\ application_ids' =
                                      AppendId(application_ids, s, JsonGet(body))
                                /\ pc' = [pc EXCEPT ![s] = "check_status"]
                                /\ UNCHANGED Counters
                           ELSE /\ UNCHANGED <<application_ids, app_id>>
                                /\ pc' = [pc EXCEPT ![s] = "idle"]
                                /\ Report(s, IF raises THEN <<>> ELSE <<FALSE>>)
              /\ UNCHANGED invoked
    /\ UNCHANGED <<Stats, user_data, profile, auth_token, application_id, headers,
                   num_applications, i, setup, created>>

\* check_application_status(app_id), called by the chain after time.sleep(1).
\* A 200 answer whose body is not a JSON object raises at
\* response.json().get("status"): the status check is not reported, the
\* exception passes the "with" block of the submit, which fires the request
\* event of the submit (marked a success), and the invocation ends.
check_application_status(s) ==
    /\ pc[s] = "check_status"
    /\ \E st \in GetStatuses, body \in StatusBodies :
        LET raises == GetExpected(st) /\ Raises(body)
            read == GetExpected(st) /\ ~Raises(body)
        IN  /\ Exchange(s, Sent("get", ApplicationPath(app_id[s]), Bearer(auth_token[s]),
                                NoJson, IF read THEN JsonGet(body) ELSE None,
                                read, ~raises), st)
            /\ pc' = [pc EXCEPT ![s] = IF raises THEN "idle" ELSE "payment"]
            /\ Report(s, IF raises THEN <<TRUE>> ELSE <<GetExpected(st)>>)
    /\ UNCHANGED <<Stats, user_data, profile, auth_token, application_ids, application_id, Locals,
                   setup, invoked, created>>

\* process_payment(app_id), called by the chain after time.sleep(2); then the
\* "with" block of the submit ends.
process_payment(s) ==
    /\ pc[s] = "payment"
    /\ \E st \in PayStatuses :
        /\ Exchange(s, Sent("pay", <<"payments", "checkout">>, Bearer(auth_token[s]),
                            PaymentData(app_id[s]), None, PayExpected(st), TRUE), st)
        /\ Report(s, <<PayExpected(st), TRUE>>)
    /\ pc' = [pc EXCEPT ![s] = "idle"]
    /\ UNCHANGED <<Stats, user_data, profile, auth_token, application_ids, application_id, Locals,
                   setup, invoked, created>>

\* ------------------------------------------------------- HeavyUserBehavior
\* bulk_application_submission: from "idle" the code up to the first request;
\* from "bulk" the handling of the answer of pass i, up to time.sleep(0.5);
\* from "bulk_sleep" the loop top: the next pass and its request, or the
\* return.
bulk_application_submission(s) ==
    /\ profile[s] = "Heavy"
    /\ CASE pc[s] = "idle" ->
              /\ Call(s, ~Truthy(auth_token[s]), "bulk")
              /\ UNCHANGED Counters
              /\ IF ~Truthy(auth_token[s])
                   THEN UNCHANGED <<headers, num_applications, i>>
                   ELSE /\ headers' = [headers EXCEPT ![s] = Bearer(auth_token[s])]
                        /\ \E n \in BulkCounts :
                              num_applications' = [num_applications EXCEPT ![s] = n]
                        /\ i' = [i EXCEPT ![s] = 0]
         [] pc[s] = "bulk" ->
              /\ \E st \in SubmitStatuses :
                    /\ Exchange(s, Sent("submit", <<"applications">>, headers[s],
                                        [personalStatement |-> i[s] + 1], None,
                                        AdvancedSubmitExpected(st), TRUE), st)
                    /\ Report(s, <<AdvancedSubmitExpected(st)>>)
              /\ pc' = [pc EXCEPT ![s] = "bulk_sleep"]
              /\ UNCHANGED <<headers, num_applications, i, invoked>>
         [] pc[s] = "bulk_sleep" ->
              /\ IF i[s] + 1 < num_applications[s]
                   THEN /\ i' = [i EXCEPT ![s] = @ + 1]
                        /\ pc' = [pc EXCEPT ![s] = "bulk"]
                   ELSE /\ pc' = [pc EXCEPT ![s] = "idle"]
                        /\ UNCHANGED i
              /\ UNCHANGED <<Counters, headers, num_applications, invoked, inv, response>>
         [] OTHER -> FALSE
    /\ UNCHANGED <<Stats, user_data, profile, auth_token, application_ids, application_id, app_id,
                   setup, created>>

\* ---------------------------------------------------- StatusPollerBehavior
\* poll_status_repeatedly: from "idle" the code up to the first request; from
\* "poll" the handling of the answer of pass i, up to time.sleep(1); from
\* "poll_sleep" the loop top: the next pass and its request, or the return.
poll_status_repeatedly(s) ==
    /\ profile[s] = "StatusChecker"
    /\ CASE pc[s] = "idle" ->
              /\ Call(s, ~Truthy(auth_token[s]) \/ application_ids[s] = <<>>, "poll")
              /\ UNCHANGED Counters
              /\ IF ~Truthy(auth_token[s]) \/ application_ids[s] = <<>>
                   THEN UNCHANGED <<headers, app_id, i>>
                   ELSE /\ headers' = [headers EXCEPT ![s] = Bearer(auth_token[s])]
                        /\ \E k \in 1 .. Len(application_ids[s]) :
                              app_id' = [app_id EXCEPT ![s] = application_ids[s][k]]
                        /\ i' = [i EXCEPT ![s] = 0]
         [] pc[s] = "poll" ->
              /\ \E st \in GetStatuses :
                    /\ Exchange(s, Sent("get", ApplicationPath(app_id[s]), headers[s],
                                        NoJson, None, GetExpected(st), TRUE), st)
                    /\ Report(s, <<GetExpected(st)>>)
              /\ pc' = [pc EXCEPT ![s] = "poll_sleep"]
              /\ UNCHANGED <<headers, app_id, i, invoked>>
         [] pc[s] = "poll_sleep" ->
              /\ IF i[s] + 1 < PollCount
                   THEN /\ i' = [i EXCEPT ![s] = @ + 1]
                        /\ pc' = [pc EXCEPT ![s] = "poll"]
                   ELSE /\ pc' = [pc EXCEPT ![s] = "idle"]
                        /\ UNCHANGED i
              /\ UNCHANGED <<Counters, headers, app_id, invoked, inv, response>>
         [] OTHER -> FALSE
    /\ UNCHANGED <<Stats, user_data, profile, auth_token, application_ids, application_id,
                   num_applications, setup, created>>

\* ------------------------------------------------------------ the program
\* One step of session s: on_start, or a step of a task of its user class.
Step(s) ==
    \/ on_start(s)
    \/ Register(s)
    \/ Login(s)
    \/ submit_application(s)
    \/ get_application_details(s)
    \/ initiate_payment(s)
    \/ complete_application_flow(s)
    \/ check_application_status(s)
    \/ process_payment(s)
    \/ bulk_application_submission(s)
    \/ poll_status_repeatedly(s)

Next == \E s \in Sessions : Step(s)

Spec == Init /\ [][Next]_vars

\* ---------------------------------------------------- a task run on its own
\* One StatusChecker user whose attributes were set by hand before its task
\* is invoked (the way a test prepares "a session with recorded ids"): the
\* token and the recorded ids are drawn from bounded sets.
Tested == "u1"

BoundedSeqs(S, n) == UNION {[1 .. k -> S] : k \in 0 .. n}

PollerInit ==
    /\ profile = [s \in Sessions |-> "StatusChecker"]
    /\ \E tok \in AccessTokens :
          auth_token = [s \in Sessions |-> IF s = Tested THEN tok ELSE None]
    /\ \E ids \in BoundedSeqs(ResponseIds, MaxIds) :
          application_ids = [s \in Sessions |-> IF s = Tested THEN ids ELSE <<>>]
    /\ application_id = [s \in Sessions |-> None]
    /\ pc = [s \in Sessions |-> IF s = Tested THEN "idle" ELSE "new"]
    /\ app_id = [s \in Sessions |-> None]
    /\ headers = [s \in Sessions |-> NoAuth]
    /\ num_applications = [s \in Sessions |-> 0]
    /\ i = [s \in Sessions |-> 0]
    /\ user_data = [s \in Sessions |-> NoUserData]
    /\ setup = [s \in Sessions |-> <<>>]
    /\ inv = [s \in Sessions |-> <<>>]
    /\ response = [s \in Sessions |-> 0]
    /\ invoked = [s \in Sessions |-> FALSE]
    /\ created = [s \in Sessions |-> None]
    /\ HooksInit

PollerNext == poll_status_repeatedly(Tested)

PollerSpec == PollerInit /\ [][PollerNext]_vars

\* ------------------------------------------------------------- scheduling
\* A running user is never starved: the scheduler keeps invoking its tasks,
\* and a request in flight gets its response.
FairSpec == Spec /\ \A s \in Sessions : WF_vars(Step(s))

\* ------------------------------------------------ on_request on its own
\* Request events of any user, exception and status fire at on_request.
RequestEvent(u, exception, status) ==
    /\ Len(events) < MaxEvents
    /\ events' = Append(events, [user |-> u, exception |-> exception, status |-> status])
    /\ Fire(<<exception>>)
    /\ UNCHANGED <<SessionVars, num_requests, num_failures, failure_line>>

MetricsInit == Init /\ profile \in [Sessions -> AdvancedProfiles]

MetricsNext ==
    \E u \in Sessions, exception \in Exceptions, status \in EventStatuses :
        RequestEvent(u, exception, status)

MetricsSpec == MetricsInit /\ [][MetricsNext]_vars

\* ------------------------------------------------- the hook on_test_stop
\* "if stats.total.num_requests > 0:"
HasRequestsMoreThanOne(n) == n > 1
HasRequests(n) == n > 0

\* (num_failures / num_requests) * 100 as "{:.2f}" prints it, in hundredths:
\* the nearest hundredth, the even one of two equally near (what the float
\* arithmetic gives for every num_requests below 160).
FailureRate(f, n) ==
    LET q == (f * 10000) \div n
        r == (f * 10000) % n
    IN  IF 2 * r > n \/ (2 * r = n /\ q % 2 = 1) THEN q + 1 ELSE q

\* on_test_stop: the part that prints the failure rate.
on_test_stop ==
    /\ failure_line = NotStopped
    /\ failure_line' = IF HasRequests(num_requests)
                         THEN FailureLine(FailureRate(num_failures, num_requests))
                         ELSE NoFailureLine
    /\ UNCHANGED <<SessionVars, request_success_count, request_failure_count,
                   num_requests, num_failures, events>>

\* The test stops with any totals in the statistics of the framework.
StopInit ==
    /\ SessionInit
    /\ profile \in [Sessions -> AdvancedProfiles]
    /\ request_success_count = 0
    /\ request_failure_count = 0
    /\ events = <<>>
    /\ num_requests \in 0 .. MaxRequests
    /\ num_failures \in 0 .. num_requests
    /\ failure_line = NotStopped

StopNext == on_test_stop

StopSpec == StopInit /\ [][StopNext]_vars

\* ------------------------------------------------------------------ claims
AuthenticatedOps == {"submit", "get", "pay"}

\* on_start has returned.
Started(s) == pc[s] \notin {"new", "registering", "registered"}

\* The login of on_start answered 200 and the handler read a non-empty token.
LoginStoredToken(s) ==
    /\ Len(setup[s]) = 2
    /\ setup[s][2].op = "login"
    /\ setup[s][2].status = 200
    /\ setup[s][2].read \notin {None, Empty}

\* C1: every authenticated request (submit, get, pay, poll) of a session is
\* sent after a login that stored a non-empty token, while the token is
\* non-empty, and carries that token in its Authorization header.
C1_NoRequestWithoutToken ==
    \A s \in Sessions : \A k \in 1 .. Len(inv[s]) :
        inv[s][k].op \in AuthenticatedOps =>
            /\ auth_token[s] \notin {None, Empty}
            /\ LoginStoredToken(s)
            /\ setup[s][2].read = auth_token[s]
            /\ inv[s][k].auth = <<"Bearer", auth_token[s]>>

\* Authenticated requests have been sent: a whole chain by one Normal
\* session, a submit by another.
C1_Witness ==
    \E s, t \in Sessions :
        /\ profile[s] = "Normal" /\ Len(inv[s]) = 3 /\ inv[s][3].op = "pay"
        /\ s # t /\ Len(inv[t]) = 1 /\ inv[t][1].op = "submit"

\* C2: a registration answered other than 201 ends the setup with no login
\* request and no token; a login answered other than 200 leaves the token
\* unset; a token is set only to the access_token of a 200 login response
\* that followed a 201 registration.
C2_SetupOutcome ==
    \A s \in Sessions :
        /\ Len(setup[s]) <= 2
        /\ Len(setup[s]) >= 1 =>
              /\ setup[s][1].op = "register"
              /\ setup[s][1].status # 201 =>
                    Len(setup[s]) = 1 /\ pc[s] = "idle" /\ auth_token[s] = None
        /\ Len(setup[s]) = 2 =>
              /\ setup[s][2].op = "login"
              /\ setup[s][1].status = 201
              /\ setup[s][2].status # 200 => auth_token[s] = None
              /\ setup[s][2].status = 200 => auth_token[s] = setup[s][2].read
        /\ auth_token[s] # None =>
              /\ Len(setup[s]) = 2
              /\ setup[s][1].status = 201
              /\ setup[s][2].status = 200

\* All three outcomes of a setup have happened: one session stopped at a
\* failed registration, one at a failed login, and one stored a token.
C2_Witness ==
    \E s, t \in Sessions :
        /\ Len(setup[s]) = 1 /\ setup[s][1].status # 201 /\ pc[s] = "idle"
        /\ Len(setup[t]) = 2 /\ setup[t][2].status = 200 /\ auth_token[t] = "tok2"

\* on_start ended without a successful registration and login.
SetupFailed(s) ==
    /\ Started(s)
    /\ \/ setup[s][1].status # 201
       \/ Len(setup[s]) = 2 /\ setup[s][2].status # 200
       \/ Len(setup[s]) = 2 /\ ~setup[s][2].reported

\* C3: once the setup of a session has failed, the session stays
\* unauthenticated and issues no request any more: every invocation of a
\* task returns without a request.
C3_SetupFailureIsPermanent ==
    \A s \in Sessions :
        SetupFailed(s) =>
            /\ auth_token[s] = None
            /\ inv[s] = <<>>
            /\ pc[s] = IF setup[s][Len(setup[s])].reported THEN "idle" ELSE "stopped"
            /\ response[s] = setup[s][Len(setup[s])].status
            /\ Len(setup[s]) = IF setup[s][1].status # 201 THEN 1 ELSE 2

\* Tasks have been invoked on sessions whose setup failed, one at the
\* registration and one at the login.
C3_Witness ==
    \E s, t \in Sessions :
        /\ SetupFailed(s) /\ invoked[s] /\ Len(setup[s]) = 1
        /\ SetupFailed(t) /\ invoked[t] /\ Len(setup[t]) = 2

\* The latest exchange of the invocation of s happened in this step.
Issued(s) == Len(inv'[s]) >= 1 /\ inv'[s] # inv[s]

\* C4: in an invocation of the Normal chain, a status check or a payment is
\* requested only when the submit of that invocation succeeded and made an
\* application id available; when the submission fails, the invocation
\* ends there and the recorded ids are unchanged.
C4_ChainNeedsSubmittedId ==
    [][\A s \in Sessions : profile[s] = "Normal" =>
          /\ (Issued(s) /\ inv'[s][Len(inv'[s])].op \in {"get", "pay"}) =>
                /\ inv'[s][1].op = "submit"
                /\ inv'[s][1].ok
                /\ inv'[s][1].read \notin {None, Empty}
          /\ (Issued(s) /\ Len(inv'[s]) = 1 /\ response'[s] \notin {201, 202}) =>
                /\ application_ids'[s] = application_ids[s]
                /\ pc'[s] = "idle"
                /\ ~inv'[s][1].ok
      ]_vars

\* The part of C4 about the failed submission, and the dependence of the
\* later steps on the success of the submit alone.
C4_ChainNeedsSuccessfulSubmit ==
    [][\A s \in Sessions : profile[s] = "Normal" =>
          /\ (Issued(s) /\ inv'[s][Len(inv'[s])].op \in {"get", "pay"}) =>
                /\ inv'[s][1].op = "submit"
                /\ inv'[s][1].ok
          /\ (Issued(s) /\ Len(inv'[s]) = 1 /\ response'[s] \notin {201, 202}) =>
                /\ application_ids'[s] = application_ids[s]
                /\ pc'[s] = "idle"
                /\ ~inv'[s][1].ok
      ]_vars

\* C5: an invocation of the Normal chain whose submit succeeds requests
\* submit, then one status check, then one payment; the status check
\* targets /applications/{id} and the payment carries applicationId = id,
\* amount 7500, currency "usd", id being the id read from the submit
\* response of the invocation, which is also the last recorded id.
C5_ChainOrderAndPayloads ==
    \A s \in Sessions :
        (profile[s] = "Normal" /\ inv[s] # <<>> /\ inv[s][1].ok) =>
            LET id == inv[s][1].read
                n == Len(inv[s])
            IN  /\ inv[s][1].op = "submit"
                /\ inv[s][1].path = <<"applications">>
                /\ n <= 3
                /\ n = CASE pc[s] = "check_status" -> 1
                         [] pc[s] = "payment" -> 2
                         [] OTHER -> 3
                /\ pc[s] = "check_status" => response[s] \in {201, 202}
                /\ application_ids[s] # <<>>
                /\ application_ids[s][Len(application_ids[s])] = id
                /\ n >= 2 =>
                      /\ inv[s][2].op = "get"
                      /\ inv[s][2].path =
                            <<"applications", IF id = None THEN "None" ELSE id>>
                /\ n = 3 =>
                      /\ inv[s][3].op = "pay"
                      /\ inv[s][3].path = <<"payments", "checkout">>
                      /\ inv[s][3].json =
                            [applicationId |-> id, amount |-> 7500, currency |-> "usd"]

\* C6: a Simple session requests get-details or pay only once a submit
\* answered 201 gave it an id, and the request names the id of the latest
\* submit answered 201.
C6_SimpleIdThreading ==
    \A s \in Sessions :
        (profile[s] = "Simple" /\ inv[s] # <<>> /\ inv[s][1].op \in {"get", "pay"}) =>
            /\ created[s] \notin {None, Empty}
            /\ Len(inv[s]) = 1
            /\ inv[s][1].op = "get" =>
                  inv[s][1].path = <<"applications", created[s]>>
            /\ inv[s][1].op = "pay" =>
                  inv[s][1].json =
                      [applicationId |-> created[s], amount |-> 7500, currency |-> "usd"]

\* C7: an invocation of the Heavy burst by an authenticated session issues
\* between 3 and 5 submissions, whatever their responses, and no status
\* check and no payment.
C7_HeavyBurstSize ==
    \A s \in Sessions :
        profile[s] = "Heavy" =>
            /\ \A k \in 1 .. Len(inv[s]) : inv[s][k].op = "submit"
            /\ Len(inv[s]) <= 5
            /\ (pc[s] = "idle" /\ invoked[s] /\ auth_token[s] \notin {None, Empty}) =>
                  Len(inv[s]) \in 3 .. 5
            /\ pc[s] \in {"new", "registering", "registered", "stopped", "idle",
                        "bulk", "bulk_sleep"}

\* A burst of 5 submissions ended although its first submission failed.
C7_Witness ==
    \E s \in Sessions :
        /\ profile[s] = "Heavy" /\ pc[s] = "idle" /\ Len(inv[s]) = 5
        /\ ~inv[s][1].ok /\ inv[s][5].ok

\* An id as a path or a payload shows it.
Shown(x) == IF x = None THEN "None" ELSE x

\* C8: an invocation of the poller by a session with a token and at least
\* one recorded id issues exactly 5 polls, all for the same id, which is one
\* of the recorded ids; without a token or without a recorded id it issues
\* no request.
C8_PollerFivePollsOneId ==
    LET s == Tested
        ids == application_ids[s]
    IN  /\ Len(inv[s]) <= 5
        /\ \A k \in 1 .. Len(inv[s]) :
              /\ inv[s][k].op = "get"
              /\ inv[s][k].path = inv[s][1].path
              /\ \E j \in 1 .. Len(ids) :
                    inv[s][k].path = <<"applications", Shown(ids[j])>>
        /\ (pc[s] = "idle" /\ invoked[s]
              /\ auth_token[s] \notin {None, Empty} /\ ids # <<>>) =>
              Len(inv[s]) = 5
        /\ (auth_token[s] \in {None, Empty} \/ ids = <<>>) =>
              inv[s] = <<>> /\ pc[s] = "idle"

\* Five polls of the second of two recorded ids, the first of them failed.
C8_Witness ==
    LET s == Tested
    IN  /\ application_ids[s] = <<"app1", "app2">>
        /\ pc[s] = "idle" /\ Len(inv[s]) = 5
        /\ inv[s][5].path = <<"applications", "app2">>
        /\ ~inv[s][1].ok /\ inv[s][5].ok

\* The model goes no further: MaxFired request events have fired, or are
\* about to (the end of a chain fires two).
AtCap == request_success_count + request_failure_count + 2 > MaxFired

\* C9: an authenticated session of each profile of the advanced generator
\* enters its behaviour on its scheduling turns: the Normal chain, the Heavy
\* burst, the poll loop each come to issue a request (as far as the model
\* goes: until MaxFired request events have fired).
C9_EveryProfileEntersItsBehaviour ==
    \A s \in Sessions :
        (profile[s] \in AdvancedProfiles /\ pc[s] = "idle"
            /\ auth_token[s] \notin {None, Empty})
        ~> (inv[s] # <<>> \/ AtCap)

\* The part of C9 about the Normal and the Heavy sessions: it holds, so only
\* a StatusChecker session fails to enter its behaviour.
C9_NormalAndHeavyEnter ==
    \A s \in Sessions :
        (profile[s] \in {"Normal", "Heavy"} /\ pc[s] = "idle"
            /\ auth_token[s] \notin {None, Empty})
        ~> (inv[s] # <<>> \/ AtCap)

\* No execution at all, fair or not, has a StatusChecker session in the poll
\* loop or with a poll request sent.
C9_StatusCheckerNeverPolls ==
    \A s \in Sessions :
        profile[s] = "StatusChecker" =>
            /\ pc[s] \in {"new", "registering", "registered", "stopped", "idle"}
            /\ \A k \in 1 .. Len(inv[s]) : inv[s][k].op # "get"

\* The session state of s, and everything the model keeps for s.
Own(s) == <<auth_token[s], application_ids[s], application_id[s]>>
All(s) == <<Own(s), pc[s], app_id[s], headers[s], num_applications[s], i[s],
            user_data[s],
            setup[s], inv[s], response[s], invoked[s], created[s]>>

\* The ids session s holds.
IdsOf(s) ==
    IF profile[s] = "Simple"
      THEN {application_id[s]}
      ELSE {application_ids[s][k] : k \in 1 .. Len(application_ids[s])}

\* The requests of s carry the token and an id of s.
CarriesOwn(s) ==
    \A k \in 1 .. Len(inv[s]) :
        /\ inv[s][k].auth = <<"Bearer", auth_token[s]>>
        /\ inv[s][k].op = "get" =>
              \E x \in IdsOf(s) : inv[s][k].path = <<"applications", Shown(x)>>
        /\ inv[s][k].op = "pay" => inv[s][k].json.applicationId \in IdsOf(s)

\* C10: a step changes the state of one session only, so no step of a
\* session changes the token or the ids of another one, and the requests of
\* a session carry its own token and its own ids.
C10_SessionIsolation ==
    [][/\ \A s, t \in Sessions :
              s # t => (All(s)' = All(s) \/ All(t)' = All(t))
       /\ \A s \in Sessions : CarriesOwn(s) /\ CarriesOwn(s)'
      ]_vars

\* Two Normal sessions with different tokens, each in the middle of its
\* chain for a different id.
C10_Witness ==
    \E s, t \in Sessions :
        /\ auth_token[s] = "tok1" /\ auth_token[t] = "tok2"
        /\ pc[s] = "payment" /\ app_id[s] = "app1"
        /\ pc[t] = "check_status" /\ app_id[t] = "app2"

\* The model goes no further for s: a Normal session that recorded MaxIds
\* ids takes no more turns.
AtBound(s) ==
    profile[s] = "Normal" /\ pc[s] = "idle" /\ Len(application_ids[s]) >= MaxIds

\* C11: no failure ends a session: whatever happened to its setup and to
\* its requests, a step of the session is enabled, the next request of a
\* running handler or the next invocation of a task.
C11_NeverStuck ==
    \A s \in Sessions : AtBound(s) \/ AtCap \/ ENABLED Step(s)

\* C12 as stated: at test stop, 0 requests report a failure rate of 0, and
\* n > 0 requests with f failures report f/n*100.
C12_ZeroRequestsReportZero ==
    failure_line.stopped =>
        /\ failure_line.printed
        /\ num_requests = 0 => failure_line.hundredths = 0
        /\ num_requests > 0 =>
              LET d == failure_line.hundredths * num_requests - 10000 * num_failures
              IN  2 * d <= num_requests /\ -2 * d <= num_requests

\* C12, amended: at test stop, 0 requests print no failure rate at all (and
\* nothing is divided); n > 0 requests with f failures print f/n*100 to the
\* nearest hundredth; 10 requests with 2 failures print 20.00.
C12_FailureRateLine ==
    failure_line.stopped =>
        /\ num_requests = 0 => failure_line = [stopped |-> TRUE, printed |-> FALSE]
        /\ num_requests > 0 =>
              /\ failure_line.printed
              /\ LET d == failure_line.hundredths * num_requests - 10000 * num_failures
                 IN  2 * d <= num_requests /\ -2 * d <= num_requests
        /\ (num_requests = 10 /\ num_failures = 2) => failure_line.hundredths = 2000

\* The test stopped after 10 requests, 2 of them failed.
C12_Witness ==
    /\ failure_line.stopped /\ failure_line.printed
    /\ num_requests = 10 /\ num_failures = 2

\* C13: a session sends one registration and at most one login, in that
\* order and before any request of its tasks; the login carries the email
\* and the password of the registration.
C13_SetupOrderAndCredentials ==
    \A s \in Sessions :
        /\ Len(setup[s]) <= 2
        /\ Len(setup[s]) >= 1 <=> pc[s] \notin {"new", "registering"}
        /\ Len(setup[s]) >= 1 => setup[s][1].op = "register"
        /\ Len(setup[s]) = 2 =>
              /\ setup[s][2].op = "login"
              /\ setup[s][2].json.email = setup[s][1].json.email
              /\ setup[s][2].json.password = setup[s][1].json.password
        /\ (inv[s] # <<>> \/ invoked[s]) => (Len(setup[s]) >= 1 /\ pc[s] # "registered")
        /\ inv[s] # <<>> => Len(setup[s]) = 2
        /\ \A k \in 1 .. Len(inv[s]) : inv[s][k].op \notin {"register", "login"}

\* Two sessions of the advanced generator registered different accounts,
\* logged in, and sent requests of their tasks.
C13_Witness ==
    \E s, t \in Sessions :
        /\ inv[s] # <<>> /\ inv[t] # <<>>
        /\ setup[s][2].json.email = <<"locust_", "aaaaaaaa", "@example.com">>
        /\ setup[s][2].json.password = "LocustTest123!"
        /\ setup[t][2].json.email = <<"locust_", "bbbbbbbb", "@example.com">>
        /\ setup[t][2].json.password = "LocustTest123!"

\* A step in which Simple session s got the response of a submit request.
SimpleSubmitted(s) == Issued(s) /\ inv'[s][1].op = "submit"

\* C14: the current application id of a Simple session changes only with a
\* submit response of status 201, and then becomes the id of that response;
\* on any other status the submit is reported as a failure and the stored
\* id and the token stay as they were.
C14_SimpleSubmitClassification ==
    [][\A s \in Sessions :
          profile[s] = "Simple" =>
              /\ (SimpleSubmitted(s) /\ response'[s] = 201) =>
                    /\ application_id'[s] = created'[s]
                    /\ inv'[s][1].ok
              /\ (SimpleSubmitted(s) /\ response'[s] # 201) =>
                    /\ application_id'[s] = application_id[s]
                    /\ auth_token'[s] = auth_token[s]
                    /\ ~inv'[s][1].ok
              /\ ~SimpleSubmitted(s) => application_id'[s] = application_id[s]]_vars

\* C15: in every submit action of both generators a response of status 201
\* or 202 is reported as success and any other status as a failure.
C15_SubmitExpects201Or202 ==
    \A s \in Sessions :
        (inv[s] # <<>> /\ inv[s][Len(inv[s])].op = "submit") =>
            (inv[s][Len(inv[s])].ok <=> response[s] \in {201, 202})

\* Session s got the response of a request in this step.
Completed(s) == setup'[s] # setup[s] \/ Issued(s)

\* The latest exchange of s after the step.
Latest(s) ==
    IF setup'[s] # setup[s] THEN setup'[s][Len(setup'[s])] ELSE inv'[s][Len(inv'[s])]

\* The step leaves s inside the "with" block of the submit of a chain, whose
\* request event is still to fire; the step ends a chain, and that event
\* fires.
ChainOpens(s) == pc[s] = "submit" /\ pc'[s] = "check_status"
ChainCloses(s) == pc[s] \in {"check_status", "payment"} /\ pc'[s] = "idle"

\* C16: every completed request of the sessions adds one to exactly one of
\* the two counters (the submit of a chain when its chain ends), to the
\* failure counter exactly when the request was not left as a success; so
\* the two counters add up to the number of completed requests.
C16_EveryCompletedRequestCounted ==
    [][\A s \in Sessions :
          (profile[s] \in AdvancedProfiles /\ Completed(s)) =>
              /\ (request_success_count' + request_failure_count')
                    - (request_success_count + request_failure_count)
                 = 1 - (IF ChainOpens(s) THEN 1 ELSE 0) + (IF ChainCloses(s) THEN 1 ELSE 0)
              /\ request_failure_count' - request_failure_count
                 = IF Latest(s).ok THEN 0 ELSE 1]_vars

\* The part of C16 about the listener on its own: each request event it
\* receives adds one to exactly one counter, to the failure counter exactly
\* when the event carries an exception, whatever its status, and nothing of
\* any session changes.
C16_MetricsHookCounts ==
    /\ [](request_success_count + request_failure_count = Len(events))
    /\ [][/\ Len(events') = Len(events) + 1
          /\ LET e == events'[Len(events')]
             IN  IF e.exception # None
                   THEN /\ request_failure_count' = request_failure_count + 1
                        /\ request_success_count' = request_success_count
                   ELSE /\ request_success_count' = request_success_count + 1
                        /\ request_failure_count' = request_failure_count
          /\ UNCHANGED SessionVars]_vars

\* A step in which session s got the response of a get-details, status
\* check, poll or payment request.
ReadOrPaid(s) == Issued(s) /\ inv'[s][Len(inv'[s])].op \in {"get", "pay"}

\* A step in which session s got the response of the submit request that
\* opens an invocation.
Submitted(s) == Issued(s) /\ Len(inv'[s]) = 1 /\ inv'[s][1].op = "submit"

\* C17: the token is set by the login only and never changes once on_start
\* has returned; the recorded ids only grow by one id appended at the end,
\* and only with a submit; the current id of a Simple session changes only
\* with a submit; get-details, status-check, poll and payment steps leave the
\* token and the ids as they were.
C17_OnlyLoginAndSubmitMutate ==
    [][\A s \in Sessions :
          /\ Started(s) => auth_token'[s] = auth_token[s]
          /\ auth_token'[s] # auth_token[s] =>
                /\ Len(setup[s]) = 1 /\ Len(setup'[s]) = 2
                /\ setup'[s][2].op = "login"
          /\ application_ids'[s] # application_ids[s] =>
                /\ Submitted(s)
                /\ Len(application_ids'[s]) = Len(application_ids[s]) + 1
                /\ SubSeq(application_ids'[s], 1, Len(application_ids[s]))
                      = application_ids[s]
          /\ application_id'[s] # application_id[s] => Submitted(s)
          /\ ReadOrPaid(s) =>
                /\ auth_token'[s] = auth_token[s]
                /\ application_ids'[s] = application_ids[s]
                /\ application_id'[s] = application_id[s]]_vars

\* A Normal session that recorded "app2" and then "app1" is past the status
\* check of the second and before its payment.
C17_Witness ==
    \E s \in Sessions :
        /\ profile[s] = "Normal" /\ application_ids[s] = <<"app2", "app1">>
        /\ pc[s] = "payment" /\ Len(inv[s]) = 2 /\ inv[s][2].op = "get"
        /\ inv[s][2].read = "submitted"

\* C18: a Heavy session and a StatusChecker session never record an id:
\* their application_ids is empty in every reachable state, whatever the
\* server answers; a StatusChecker session sends no request of its task.
C18_OnlyNormalRecordsIds ==
    \A s \in Sessions :
        /\ profile[s] \in {"Heavy", "StatusChecker"} => application_ids[s] = <<>>
        /\ profile[s] = "StatusChecker" => (inv[s] = <<>> /\ pc[s] \notin {"poll", "poll_sleep"})

\* A Heavy session ended a burst whose submissions were all answered 201,
\* next to a logged-in StatusChecker session whose task was invoked.
C18_Witness ==
    \E s, t \in Sessions :
        /\ profile[s] = "Heavy" /\ pc[s] = "idle" /\ Len(inv[s]) = HeavyMin
        /\ \A k \in 1 .. Len(inv[s]) : inv[s][k].op = "submit" /\ inv[s][k].ok
        /\ response[s] = 201
        /\ profile[t] = "StatusChecker" /\ Truthy(auth_token[t]) /\ invoked[t]

====
